---------------------------- MODULE Spec2Model ----------------------------
(***************************************************************************)
(* Model of jensen_streamlit.py: one Streamlit script that, on every pass, *)
(* fetches two price series through a memoised fetch_data, turns them into *)
(* percentage returns, aligns them, regresses excess stock return on       *)
(* excess market return and renders metrics, interpretation and charts,    *)
(* all inside one try / except Exception.                                  *)
(*                                                                         *)
(* Numbers are exact rationals <<n, d>> (d > 0, lowest terms); <<0, 0>>    *)
(* stands for NaN.  Dates are small integers.                              *)
(***************************************************************************)
EXTENDS Integers, Sequences, FiniteSets, TLC

VARIABLES provider, cache, reruns,
          stock_symbol, selected_index, start_date, end_date, risk_free_rate,
          pc, exc, page,
          stock_data, market_data, returns_df, risk_free_rate_monthly,
          X, y, model, metrics, beta, alpha,
          beta_interpretation, alpha_interpretation,
          stock_alias, market_alias

vars == <<provider, cache, reruns,
          stock_symbol, selected_index, start_date, end_date, risk_free_rate,
          pc, exc, page,
          stock_data, market_data, returns_df, risk_free_rate_monthly,
          X, y, model, metrics, beta, alpha,
          beta_interpretation, alpha_interpretation,
          stock_alias, market_alias>>

inputs == <<stock_symbol, selected_index, start_date, end_date, risk_free_rate>>

---------------------------------------------------------------------------
(* Bounds of the model. *)

\* dates are 1 .. MaxDate
MaxDate == 4
\* input changes (reruns of the script) after the first pass
MaxReruns == 2

---------------------------------------------------------------------------
(* Float arithmetic, modelled exactly on rationals. *)

NaN == <<0, 0>>

IsNaN(a) == a[2] = 0

Abs(n) == IF n < 0 THEN -n ELSE n

RECURSIVE GCD(_, _)
GCD(a, b) == IF b = 0 THEN a ELSE GCD(b, a % b)

Norm(n, d) ==
    IF d = 0 THEN NaN
    ELSE LET g == GCD(Abs(n), Abs(d))
             s == IF d < 0 THEN -1 ELSE 1
         IN  <<(s * n) \div g, (s * d) \div g>>

Rat(n) == <<n, 1>>

RAdd(a, b) ==
    IF IsNaN(a) \/ IsNaN(b) THEN NaN
    ELSE LET g == GCD(a[2], b[2])
         IN  Norm(a[1] * (b[2] \div g) + b[1] * (a[2] \div g), (a[2] \div g) * b[2])

RNeg(a) == <<-a[1], a[2]>>

RSub(a, b) == RAdd(a, RNeg(b))

RMul(a, b) ==
    IF IsNaN(a) \/ IsNaN(b) THEN NaN
    ELSE LET g1 == GCD(Abs(a[1]), b[2])
             g2 == GCD(Abs(b[1]), a[2])
         IN  Norm((a[1] \div g1) * (b[1] \div g2), (a[2] \div g2) * (b[2] \div g1))

\* x / 0 is NaN here: the script only divides where the model guards it
RDiv(a, b) ==
    IF IsNaN(a) \/ IsNaN(b) \/ b[1] = 0 THEN NaN
    ELSE RMul(a, IF b[1] < 0 THEN <<-b[2], -b[1]>> ELSE <<b[2], b[1]>>)

\* comparisons with NaN are false, as in IEEE arithmetic
RLt(a, b) == ~IsNaN(a) /\ ~IsNaN(b) /\ a[1] * b[2] < b[1] * a[2]

RGt(a, b) == RLt(b, a)

\* sum of f[d] for d in S
RECURSIVE RSum(_, _)
RSum(f, S) ==
    IF S = {} THEN Rat(0)
    ELSE LET d == CHOOSE e \in S : TRUE
         IN  RAdd(f[d], RSum(f, S \ {d}))

---------------------------------------------------------------------------
(* pandas: Series are functions date -> value, DataFrames are functions    *)
(* column -> Series (returns_df: date -> row record).                      *)

Dates == 1 .. MaxDate

\* adjusted closing prices of the bounded series
Prices == {1, 2}

EmptySeries == [d \in {} |-> NaN]

\* a pct_change that measures every row against the first row of the series
pct_change_first(s) ==
    [t \in DOMAIN s |->
        LET before == {d \in DOMAIN s : d < t}
        IN  IF before = {} THEN NaN
            ELSE LET first == CHOOSE d \in before : \A e \in before : d <= e
                 IN  RSub(Norm(s[t], s[first]), Rat(1))]

\* Series.pct_change(): price / previous price of the same series - 1, and
\* NaN on the first row
pct_change(s) ==
    [t \in DOMAIN s |->
        LET before == {d \in DOMAIN s : d < t}
        IN  IF before = {} THEN NaN
            ELSE LET prev == CHOOSE d \in before : \A e \in before : e <= d
                 IN  RSub(Norm(s[t], s[prev]), Rat(1))]

SeriesMul(s, c) == [t \in DOMAIN s |-> RMul(s[t], c)]

SeriesSub(s, c) == [t \in DOMAIN s |-> RSub(s[t], c)]

\* df[col] = series
SetColumn(df, col, s) ==
    [c \in DOMAIN df \cup {col} |-> IF c = col THEN s ELSE df[c]]

\* pd.DataFrame({"Stock_Return": a, "Market_Return": b}): the rows are the
\* union of the two indexes, NaN where a series has no value
DataFrame(a, b) ==
    [d \in DOMAIN a \cup DOMAIN b |->
        [Stock_Return  |-> IF d \in DOMAIN a THEN a[d] ELSE NaN,
         Market_Return |-> IF d \in DOMAIN b THEN b[d] ELSE NaN]]

\* a dropna(how="all"): drops a row only when both of its values are NaN
dropna_all(df) ==
    [d \in {e \in DOMAIN df : ~(IsNaN(df[e].Stock_Return) /\ IsNaN(df[e].Market_Return))}
        |-> df[d]]

\* DataFrame.dropna(): drop every row holding a NaN
dropna(df) ==
    [d \in {e \in DOMAIN df : ~IsNaN(df[e].Stock_Return) /\ ~IsNaN(df[e].Market_Return)}
        |-> df[d]]

Column(df, col) ==
    [d \in DOMAIN df |-> IF col = "Stock_Return" THEN df[d].Stock_Return
                         ELSE df[d].Market_Return]

---------------------------------------------------------------------------
(* statsmodels *)

\* add_trend's safe_is_const: np.ptp(s) == 0 and np.any(s != 0); np.ptp of
\* an empty Series raises inside it, which it turns into False
IsNonzeroConst(s) ==
    /\ DOMAIN s # {}
    /\ \A d, e \in DOMAIN s : s[d] = s[e]
    /\ \E d \in DOMAIN s : s[d] # Rat(0)

\* sm.add_constant(X), has_constant="skip": no const column is added when
\* X already is a non-zero constant
add_constant(s) ==
    IF IsNonzeroConst(s)
    THEN [c \in {"Market_Return"} |-> s]
    ELSE [c \in {"const", "Market_Return"} |->
             IF c = "const" THEN [d \in DOMAIN s |-> Rat(1)] ELSE s]

NoFit == [params |-> [c \in {} |-> NaN], rsquared |-> NaN]

\* a fit that accepts a design matrix with no rows
OLSRaises_never(yy, XX) == FALSE

\* sm.OLS(y, X): numpy raises ValueError (zero-size array to reduction
\* operation) on a design matrix with no rows
OLSRaises(yy, XX) == DOMAIN yy = {}

\* sm.OLS(y, X).fit(): least squares through the pseudo-inverse, so a
\* rank-deficient design gives the minimum-norm solution, not an error.
\* ssr is taken from the normal equations (residuals orthogonal to X).
OLSFit(yy, XX) ==
    LET D   == DOMAIN yy
        n   == Rat(Cardinality(D))
        x   == XX["Market_Return"]
        Sx  == RSum(x, D)
        Sy  == RSum(yy, D)
        Sxx == RSum([d \in D |-> RMul(x[d], x[d])], D)
        Sxy == RSum([d \in D |-> RMul(x[d], yy[d])], D)
        Syy == RSum([d \in D |-> RMul(yy[d], yy[d])], D)
    IN  IF "const" \in DOMAIN XX
        THEN LET det  == RSub(RMul(n, Sxx), RMul(Sx, Sx))
                 cxy  == RSub(Sxy, RDiv(RMul(Sx, Sy), n))
                 tss  == RSub(Syy, RDiv(RMul(Sy, Sy), n))
                 c    == RDiv(Sx, n)
                 t    == RDiv(RDiv(Sy, n), RAdd(Rat(1), RMul(c, c)))
                 b    == IF det # Rat(0)
                         THEN RDiv(RSub(RMul(n, Sxy), RMul(Sx, Sy)), det)
                         ELSE RMul(t, c)
                 a    == IF det # Rat(0)
                         THEN RDiv(RSub(Sy, RMul(b, Sx)), n)
                         ELSE t
                 ssr  == RSub(tss, RMul(b, cxy))
             IN  [params   |-> [k \in {"const", "Market_Return"} |->
                                   IF k = "const" THEN a ELSE b],
                  rsquared |-> RSub(Rat(1), RDiv(ssr, tss))]
        ELSE LET b   == IF Sxx # Rat(0) THEN RDiv(Sxy, Sxx) ELSE Rat(0)
                 ssr == RSub(Syy, RMul(b, Sxy))
             IN  [params   |-> [k \in {"Market_Return"} |-> b],
                  rsquared |-> RSub(Rat(1), RDiv(ssr, Syy))]

\* round(value, 4) of a numpy float: scale, round half to even, unscale
Round4(a) ==
    IF IsNaN(a) THEN NaN
    ELSE LET s   == 10000
             i   == a[1] \div a[2]
             r   == a[1] % a[2]
             f   == (r * s) \div a[2]
             rem == (r * s) % a[2]
             lo  == i * s + f
             up  == IF 2 * rem > a[2] \/ (2 * rem = a[2] /\ lo % 2 = 1) THEN 1 ELSE 0
         IN  Norm(lo + up, s)

---------------------------------------------------------------------------
(* The script's constants and inputs. *)

\* market_indices
market_indices ==
    [n \in {"S&P 500", "NASDAQ 100", "Dow Jones", "Russell 2000"} |->
        CASE n = "S&P 500"      -> "^GSPC"
          [] n = "NASDAQ 100"   -> "^NDX"
          [] n = "Dow Jones"    -> "^DJI"
          [] n = "Russell 2000" -> "^RUT"]

IndexNames == DOMAIN market_indices

IndexTickers == {market_indices[n] : n \in IndexNames}

\* what the user may type as the stock symbol: a listed stock, an unknown
\* symbol, and the ticker of one of the indexes
StockSymbols == {"AAPL", "ZZZZ", "^GSPC"}

Tickers == StockSymbols \cup IndexTickers

\* st.sidebar.number_input(..., min_value=0.0, max_value=20.0, value=6.0)
RiskFreeRates == {0, 6, 20}

\* the date ranges the user may pick: <<start_date, end_date>>
DateRanges == {<<1, MaxDate + 1>>, <<2, MaxDate + 1>>, <<1, MaxDate>>}

\* decimal digits the model keeps when it takes the twelfth root
Scale == 1000

Roots == Scale .. (Scale + Scale \div 4)

ISqrt(v) == CHOOSE k \in Roots : k * k <= v * Scale /\ v * Scale < (k + 1) * (k + 1)

ICbrt(v) ==
    CHOOSE k \in Roots :
        k * k * k <= v * Scale * Scale /\ v * Scale * Scale < (k + 1) * (k + 1) * (k + 1)

\* (1 + risk_free_rate / 100) ** (1 / 12) - 1 for each whole annual rate of
\* the widget's range, the root taken as the cube root of the square root
\* of the square root, to Scale's precision
PeriodicRates ==
    [rate \in 0 .. 20 |->
        Norm(ICbrt(ISqrt(ISqrt(Scale + (rate * Scale) \div 100))) - Scale, Scale)]

\* line 65
PeriodicRate(rate) == PeriodicRates[rate]

---------------------------------------------------------------------------
(* The market-data provider and the memoised fetch. *)

Fail == [ok |-> FALSE, prices |-> [d \in {} |-> 0]]

History(h) == [ok |-> TRUE, prices |-> h]

\* a series whose price grows by exactly 1.5 % a day, the periodic rate of
\* PeriodicRate(20); in floating point 16384, 16512, 16641 grow by exactly
\* 0.78125 %, the periodic rate of risk_free_rate = 9.788509176774175
Geometric == (1 :> 40000) @@ (2 :> 40600) @@ (3 :> 41209)

\* every price series on a subset of the dates
SmallHistories == UNION {[S -> Prices] : S \in SUBSET Dates}

\* the provider of the multi-pass specification: one listing per ticker
Listing ==
    [t \in Tickers |->
        CASE t = "AAPL"  -> History((1 :> 1) @@ (2 :> 2) @@ (3 :> 2) @@ (4 :> 1))
          [] t = "^GSPC" -> History((1 :> 1) @@ (2 :> 2) @@ (3 :> 1) @@ (4 :> 2))
          [] t = "^NDX"  -> History((1 :> 2) @@ (2 :> 2) @@ (3 :> 2) @@ (4 :> 2))
          [] t = "^DJI"  -> History(Geometric)
          [] t = "^RUT"  -> History((1 :> 1) @@ (3 :> 2))
          [] OTHER       -> Fail]

\* yf.download(symbol, start=start, end=end): the rows with start <= date < end
Download(symbol, start, end) ==
    [c \in {"Adj Close"} |->
        [d \in {e \in DOMAIN provider[symbol].prices : start <= e /\ e < end} |->
            provider[symbol].prices[d]]]

\* a memoisation keyed by the symbol alone
CacheKey_symbol(symbol, start, end) == <<symbol, 0, 0>>

\* st.cache_data memoises fetch_data on its arguments
CacheKey(symbol, start, end) == <<symbol, start, end>>

\* a handler for ValueError only
Catches_ValueError(e) == e = "ValueError"

\* except Exception
Catches(e) == TRUE

---------------------------------------------------------------------------
(* The page and the state of one pass. *)

Element(kind, text, value) == [kind |-> kind, text |-> text, value |-> value]

\* lines 11-43: title, description and the sidebar, before the try
Header ==
    <<Element("title", "Stock Beta & Jensen's Alpha Calculator", NaN),
      Element("markdown", "description", NaN),
      Element("sidebar", "Input Parameters", NaN)>>

NoFrame == [c \in {} |-> EmptySeries]

\* no cache entry: the frame object is the caller's own
NoAlias == <<"", 0, 0>>

NoException == [type |-> "none", at |-> "none"]

\* the names of the script before its first statement has run
StartOfPass ==
    /\ pc = "fetch_stock"
    /\ exc = NoException
    /\ page = Header
    /\ stock_data = NoFrame
    /\ market_data = NoFrame
    /\ returns_df = [d \in {} |-> NaN]
    /\ risk_free_rate_monthly = NaN
    /\ X = NoFrame
    /\ y = EmptySeries
    /\ model = NoFit
    /\ metrics = <<>>
    /\ beta = NaN
    /\ alpha = NaN
    /\ beta_interpretation = ""
    /\ alpha_interpretation = ""
    /\ stock_alias = NoAlias
    /\ market_alias = NoAlias

\* the first pass, with the widgets' default values
Init ==
    /\ provider = Listing
    /\ cache = [k \in {} |-> NoFrame]
    /\ reruns = 0
    /\ stock_symbol = "AAPL"
    /\ selected_index = "S&P 500"
    /\ start_date = 1
    /\ end_date = MaxDate + 1
    /\ risk_free_rate = 6
    /\ StartOfPass

\* one pass over any two price series of the bounded sets
InitPass ==
    /\ \E hs, hm \in {History(h) : h \in SmallHistories \cup {Geometric}} \cup {Fail} :
          provider = [t \in Tickers |->
                         IF t = "AAPL" THEN hs ELSE IF t = "^GSPC" THEN hm ELSE Fail]
    /\ cache = [k \in {} |-> NoFrame]
    /\ reruns = 0
    /\ stock_symbol = "AAPL"
    /\ selected_index = "S&P 500"
    /\ start_date = 1
    /\ end_date = MaxDate + 1
    /\ risk_free_rate \in RiskFreeRates
    /\ StartOfPass

\* a statement inside the try raises
Raise(e) ==
    /\ exc' = [type |-> e, at |-> pc]
    /\ pc' = IF Catches(e) THEN "except" ELSE "crashed"

\* fetch_data(symbol, start_date, end_date): <<the frame, the cache after>>,
\* a copy of the memoised frame on a hit, the download stored on a miss
fetch_data(symbol, start, end) ==
    LET key == CacheKey(symbol, start, end)
    IN  IF key \in DOMAIN cache
        THEN <<cache[key], cache>>
        ELSE LET data == Download(symbol, start, end)
             IN  <<data, [k \in DOMAIN cache \cup {key} |->
                             IF k = key THEN data ELSE cache[k]]>>

\* whether the call reaches the provider and the provider fails
FetchFails(symbol, start, end) ==
    /\ CacheKey(symbol, start, end) \notin DOMAIN cache
    /\ ~provider[symbol].ok

\* a cache that hands out the stored object itself (st.cache_resource)
Handout_shared(key) == key

\* which cache entry the frame object handed to the caller is: none, as
\* st.cache_data stores the pickled value and hands out a copy of its own
Handout(key) == NoAlias

\* two names for one frame object
Shared(a, b) == a = b /\ a # NoAlias

\* the cache after a write to the frame object alias names
WriteThrough(alias, frame) ==
    IF alias \in DOMAIN cache THEN [cache EXCEPT ![alias] = frame] ELSE cache

\* line 51
FetchStock ==
    /\ pc = "fetch_stock"
    /\ IF FetchFails(stock_symbol, start_date, end_date)
       THEN /\ Raise("DownloadError")
            /\ UNCHANGED <<cache, stock_data, stock_alias>>
       ELSE LET r == fetch_data(stock_symbol, start_date, end_date)
            IN  /\ stock_data' = r[1]
                /\ cache' = r[2]
                /\ stock_alias' = Handout(CacheKey(stock_symbol, start_date, end_date))
                /\ pc' = "fetch_market"
                /\ exc' = exc
    /\ UNCHANGED <<provider, reruns, inputs, page, market_data, returns_df,
                   risk_free_rate_monthly, X, y, model, metrics, beta, alpha,
                   beta_interpretation, alpha_interpretation, market_alias>>

\* line 52
FetchMarket ==
    /\ pc = "fetch_market"
    /\ IF FetchFails(market_indices[selected_index], start_date, end_date)
       THEN /\ Raise("DownloadError")
            /\ UNCHANGED <<cache, stock_data, market_data, market_alias>>
       ELSE LET r == fetch_data(market_indices[selected_index], start_date, end_date)
            IN  /\ market_data' = r[1]
                /\ cache' = r[2]
                /\ market_alias' =
                      Handout(CacheKey(market_indices[selected_index], start_date, end_date))
                /\ stock_data' = IF Shared(market_alias', stock_alias) THEN r[1]
                                 ELSE stock_data
                /\ pc' = "stock_return"
                /\ exc' = exc
    /\ UNCHANGED <<provider, reruns, inputs, page, returns_df,
                   risk_free_rate_monthly, X, y, model, metrics, beta, alpha,
                   beta_interpretation, alpha_interpretation, stock_alias>>

\* line 55: the assignment changes the frame object stock_data names
StockReturn ==
    /\ pc = "stock_return"
    /\ LET frame == SetColumn(stock_data, "Return",
                              SeriesMul(pct_change(stock_data["Adj Close"]), Rat(100)))
       IN  /\ stock_data' = frame
           /\ cache' = WriteThrough(stock_alias, frame)
           /\ market_data' = IF Shared(stock_alias, market_alias) THEN frame
                             ELSE market_data
    /\ pc' = "market_return"
    /\ UNCHANGED <<provider, reruns, inputs, exc, page, returns_df,
                   risk_free_rate_monthly, X, y, model, metrics, beta, alpha,
                   beta_interpretation, alpha_interpretation,
                   stock_alias, market_alias>>

\* line 56
MarketReturn ==
    /\ pc = "market_return"
    /\ LET frame == SetColumn(market_data, "Return",
                              SeriesMul(pct_change(market_data["Adj Close"]), Rat(100)))
       IN  /\ market_data' = frame
           /\ cache' = WriteThrough(market_alias, frame)
           /\ stock_data' = IF Shared(stock_alias, market_alias) THEN frame
                            ELSE stock_data
    /\ pc' = "returns_df"
    /\ UNCHANGED <<provider, reruns, inputs, exc, page, returns_df,
                   risk_free_rate_monthly, X, y, model, metrics, beta, alpha,
                   beta_interpretation, alpha_interpretation,
                   stock_alias, market_alias>>

\* lines 59-62
ReturnsDf ==
    /\ pc = "returns_df"
    /\ returns_df' = dropna(DataFrame(stock_data["Return"], market_data["Return"]))
    /\ pc' = "rf_monthly"
    /\ UNCHANGED <<provider, cache, reruns, inputs, exc, page, stock_data, market_data,
                   risk_free_rate_monthly, X, y, model, metrics, beta, alpha,
                   beta_interpretation, alpha_interpretation,
                   stock_alias, market_alias>>

\* line 65
RiskFreeRateMonthly ==
    /\ pc = "rf_monthly"
    /\ risk_free_rate_monthly' = PeriodicRate(risk_free_rate)
    /\ pc' = "excess"
    /\ UNCHANGED <<provider, cache, reruns, inputs, exc, page, stock_data, market_data,
                   returns_df, X, y, model, metrics, beta, alpha,
                   beta_interpretation, alpha_interpretation,
                   stock_alias, market_alias>>

\* a regressor that keeps the raw market return
ExcessX_raw(df, rate) == Column(df, "Market_Return")

\* line 68
ExcessX(df, rate) == SeriesSub(Column(df, "Market_Return"), RMul(rate, Rat(100)))

\* line 69
ExcessY(df, rate) == SeriesSub(Column(df, "Stock_Return"), RMul(rate, Rat(100)))

\* lines 68-69: X is still a Series here
Excess ==
    /\ pc = "excess"
    /\ X' = ExcessX(returns_df, risk_free_rate_monthly)
    /\ y' = ExcessY(returns_df, risk_free_rate_monthly)
    /\ pc' = "add_constant"
    /\ UNCHANGED <<provider, cache, reruns, inputs, exc, page, stock_data, market_data,
                   returns_df, risk_free_rate_monthly, model, metrics, beta, alpha,
                   beta_interpretation, alpha_interpretation,
                   stock_alias, market_alias>>

\* line 70
AddConstant ==
    /\ pc = "add_constant"
    /\ X' = add_constant(X)
    /\ pc' = "fit"
    /\ UNCHANGED <<provider, cache, reruns, inputs, exc, page, stock_data, market_data,
                   returns_df, risk_free_rate_monthly, y, model, metrics, beta, alpha,
                   beta_interpretation, alpha_interpretation,
                   stock_alias, market_alias>>

\* line 71
Fit ==
    /\ pc = "fit"
    /\ IF OLSRaises(y, X)
       THEN /\ Raise("ValueError")
            /\ model' = model
       ELSE /\ model' = OLSFit(y, X)
            /\ pc' = "results_header"
            /\ exc' = exc
    /\ UNCHANGED <<provider, cache, reruns, inputs, page, stock_data, market_data,
                   returns_df, risk_free_rate_monthly, X, y, metrics, beta, alpha,
                   beta_interpretation, alpha_interpretation,
                   stock_alias, market_alias>>

\* lines 74-77
ResultsHeader ==
    /\ pc = "results_header"
    /\ page' = Append(page, Element("subheader", "Statistical Results", NaN))
    /\ pc' = "metrics"
    /\ UNCHANGED <<provider, cache, reruns, inputs, exc, stock_data, market_data,
                   returns_df, risk_free_rate_monthly, X, y, model, metrics, beta, alpha,
                   beta_interpretation, alpha_interpretation,
                   stock_alias, market_alias>>

\* lines 78-82: model.params["const"] is a KeyError when add_constant added
\* no const column
Metrics ==
    /\ pc = "metrics"
    /\ IF "const" \notin DOMAIN model.params
       THEN /\ Raise("KeyError")
            /\ metrics' = metrics
       ELSE /\ metrics' = <<[name |-> "Beta", value |-> Round4(model.params["Market_Return"])],
                            [name |-> "Jensen's Alpha", value |-> Round4(model.params["const"])],
                            [name |-> "R-squared", value |-> Round4(model.rsquared)]>>
            /\ pc' = "show_metrics"
            /\ exc' = exc
    /\ UNCHANGED <<provider, cache, reruns, inputs, page, stock_data, market_data,
                   returns_df, risk_free_rate_monthly, X, y, model, beta, alpha,
                   beta_interpretation, alpha_interpretation,
                   stock_alias, market_alias>>

\* lines 84-85
ShowMetrics ==
    /\ pc = "show_metrics"
    /\ page' = page \o [i \in 1 .. Len(metrics) |->
                           Element("metric", metrics[i].name, metrics[i].value)]
    /\ pc' = "interpret"
    /\ UNCHANGED <<provider, cache, reruns, inputs, exc, stock_data, market_data,
                   returns_df, risk_free_rate_monthly, X, y, model, metrics, beta, alpha,
                   beta_interpretation, alpha_interpretation,
                   stock_alias, market_alias>>

\* a two-way Beta label with no Neutral case
BetaLabel_ge(b) ==
    IF ~RLt(b, Rat(1)) THEN "Aggressive" ELSE "Defensive"

\* lines 92-96
BetaLabel(b) ==
    IF RGt(b, Rat(1)) THEN "Aggressive"
    ELSE IF RLt(b, Rat(1)) THEN "Defensive"
    ELSE "Neutral"

\* a two-way Alpha label with no Neutral case
AlphaLabel_ge(a) ==
    IF ~RLt(a, Rat(0)) THEN "Outperforming" ELSE "Underperforming"

\* lines 98-102
AlphaLabel(a) ==
    IF RGt(a, Rat(0)) THEN "Outperforming"
    ELSE IF RLt(a, Rat(0)) THEN "Underperforming"
    ELSE "Neutral"

\* lines 88-105
Interpret ==
    /\ pc = "interpret"
    /\ beta' = model.params["Market_Return"]
    /\ alpha' = model.params["const"]
    /\ beta_interpretation' = BetaLabel(beta')
    /\ alpha_interpretation' = AlphaLabel(alpha')
    /\ page' = page \o <<Element("subheader", "Interpretation", NaN),
                         Element("write", beta_interpretation', Round4(beta')),
                         Element("write", alpha_interpretation', Round4(alpha'))>>
    /\ pc' = "scatter"
    /\ UNCHANGED <<provider, cache, reruns, inputs, exc, stock_data, market_data,
                   returns_df, risk_free_rate_monthly, X, y, model, metrics,
                   stock_alias, market_alias>>

\* px.scatter(..., trendline="ols"): with more than one row plotly fits
\* sm.OLS(y, sm.add_constant(x)) on the raw returns and reads params[1],
\* an IndexError when add_constant skipped the constant
TrendlineRaises(df) ==
    /\ Cardinality(DOMAIN df) > 1
    /\ IsNonzeroConst(Column(df, "Market_Return"))

\* lines 108-121
Scatter ==
    /\ pc = "scatter"
    /\ IF TrendlineRaises(returns_df)
       THEN /\ Raise("IndexError")
            /\ page' = Append(page, Element("subheader", "Visualizations", NaN))
       ELSE /\ page' = page \o <<Element("subheader", "Visualizations", NaN),
                                 Element("chart", "scatter", NaN)>>
            /\ pc' = "bar"
            /\ exc' = exc
    /\ UNCHANGED <<provider, cache, reruns, inputs, stock_data, market_data,
                   returns_df, risk_free_rate_monthly, X, y, model, metrics, beta, alpha,
                   beta_interpretation, alpha_interpretation,
                   stock_alias, market_alias>>

\* lines 124-146
Bar ==
    /\ pc = "bar"
    /\ page' = Append(page, Element("chart", "bar", NaN))
    /\ pc' = "done"
    /\ UNCHANGED <<provider, cache, reruns, inputs, exc, stock_data, market_data,
                   returns_df, risk_free_rate_monthly, X, y, model, metrics, beta, alpha,
                   beta_interpretation, alpha_interpretation,
                   stock_alias, market_alias>>

Hint == "Please check if the stock symbol is valid and try again."

\* lines 148-150
Except ==
    /\ pc = "except"
    /\ page' = page \o <<Element("error", exc.type, NaN), Element("write", Hint, NaN)>>
    /\ pc' = "done"
    /\ UNCHANGED <<provider, cache, reruns, inputs, exc, stock_data, market_data,
                   returns_df, risk_free_rate_monthly, X, y, model, metrics, beta, alpha,
                   beta_interpretation, alpha_interpretation,
                   stock_alias, market_alias>>

\* the user changes a widget: Streamlit abandons the pass wherever it is and
\* runs the script again from the top, keeping nothing but fetch_data's cache
Rerun ==
    /\ reruns < MaxReruns
    /\ reruns' = reruns + 1
    /\ stock_symbol' \in StockSymbols
    /\ selected_index' \in IndexNames
    /\ \E range \in DateRanges :
          /\ start_date' = range[1]
          /\ end_date' = range[2]
    /\ risk_free_rate' \in RiskFreeRates
    /\ pc' = "fetch_stock"
    /\ exc' = NoException
    /\ page' = Header
    /\ stock_data' = NoFrame
    /\ market_data' = NoFrame
    /\ returns_df' = [d \in {} |-> NaN]
    /\ risk_free_rate_monthly' = NaN
    /\ X' = NoFrame
    /\ y' = EmptySeries
    /\ model' = NoFit
    /\ metrics' = <<>>
    /\ beta' = NaN
    /\ alpha' = NaN
    /\ beta_interpretation' = ""
    /\ alpha_interpretation' = ""
    /\ stock_alias' = NoAlias
    /\ market_alias' = NoAlias
    /\ UNCHANGED <<provider, cache>>

\* the statements of one pass
Pass ==
    \/ FetchStock
    \/ FetchMarket
    \/ StockReturn
    \/ MarketReturn
    \/ ReturnsDf
    \/ RiskFreeRateMonthly
    \/ Excess
    \/ AddConstant
    \/ Fit
    \/ ResultsHeader
    \/ Metrics
    \/ ShowMetrics
    \/ Interpret
    \/ Scatter
    \/ Bar
    \/ Except

Next == Pass \/ Rerun

Spec == Init /\ [][Next]_vars

SpecPass == InitPass /\ [][Pass]_vars

---------------------------------------------------------------------------
(* What the claims speak of. *)

Order ==
    <<"fetch_stock", "fetch_market", "stock_return", "market_return", "returns_df",
      "rf_monthly", "excess", "add_constant", "fit", "results_header", "metrics",
      "show_metrics", "interpret", "scatter", "bar", "done">>

Pos == [p \in {Order[i] : i \in 1 .. Len(Order)} |->
           CHOOSE i \in 1 .. Len(Order) : Order[i] = p]

\* the statement named step has run to its end in this pass
Reached(step) ==
    Pos[IF exc.type = "none" THEN pc ELSE exc.at] > Pos[step]

ErrorShown == \E i \in 1 .. Len(page) : page[i].kind = "error"

MetricShown == \E i \in 1 .. Len(page) : page[i].kind = "metric"

\* a metric, an interpretation sentence or a chart is on the page
ResultShown ==
    \E i \in 1 .. Len(page) :
        \/ page[i].kind \in {"metric", "chart"}
        \/ page[i].kind = "write" /\ page[i].text # Hint

EndsWithErrorAndHint ==
    /\ Len(page) >= 2
    /\ page[Len(page) - 1].kind = "error"
    /\ page[Len(page)] = Element("write", Hint, NaN)
    /\ Cardinality({i \in 1 .. Len(page) : page[i].kind = "error"}) = 1

---------------------------------------------------------------------------
(* C1 *)

\* C1: no exception raised inside the try escapes it, and a pass in which a
\* statement raised ends with exactly one error message on the page,
\* followed by the hint to check the stock symbol as the last element.
C1_FailuresCaught ==
    /\ pc # "crashed"
    /\ exc.type # "none" => pc \in {"except", "done"}
    /\ (pc = "done" /\ exc.type # "none") => EndsWithErrorAndHint

\* a pass whose regression raised on an empty design matrix has ended with
\* the error and the hint
C1_Witness ==
    /\ pc = "done"
    /\ exc = [type |-> "ValueError", at |-> "fit"]
    /\ EndsWithErrorAndHint

---------------------------------------------------------------------------
(* C2 *)

---------------------------------------------------------------------------
(* C3 *)

\* C3: once returns_df is built with no row, the pass never shows a metric,
\* a sentence or a chart, and it ends with the error message on the page.
C3_EmptyPairsReported ==
    (Reached("returns_df") /\ DOMAIN returns_df = {}) =>
        /\ ~ResultShown
        /\ pc = "done" => ErrorShown /\ EndsWithErrorAndHint

\* both series have at least two prices but no return date in common, and
\* the pass has ended with the error
C3_Witness ==
    /\ pc = "done"
    /\ Reached("returns_df")
    /\ DOMAIN returns_df = {}
    /\ Cardinality(DOMAIN stock_data["Adj Close"]) >= 2
    /\ Cardinality(DOMAIN market_data["Adj Close"]) >= 2
    /\ ErrorShown

---------------------------------------------------------------------------
(* C4 *)

\* the excess market return takes the same value in every row
ExcessMarketConstant ==
    \A d, e \in DOMAIN returns_df :
        ExcessX(returns_df, risk_free_rate_monthly)[d]
            = ExcessX(returns_df, risk_free_rate_monthly)[e]

\* C4: a pass whose returns_df has fewer than 2 rows, or whose excess market
\* return is the same in every row, ends with the error and shows no metric.
C4_DegenerateRegressionFails ==
    (pc = "done" /\ Reached("rf_monthly")
        /\ (Cardinality(DOMAIN returns_df) < 2 \/ ExcessMarketConstant)) =>
        /\ ErrorShown
        /\ ~MetricShown

---------------------------------------------------------------------------
(* C5 *)

\* the dates on which the Return column of a fetched frame holds a value
ReturnDates(df) == {d \in DOMAIN df["Return"] : ~IsNaN(df["Return"][d])}

Min(a, b) == IF a < b THEN a ELSE b

\* C5: when returns_df has been built (lines 59-62), its rows are exactly
\* the dates on which both the stock return and the market return hold a
\* value, each row holds those two values, and the row count is at most the
\* smaller number of returns.
C5_AlignedPairsAreIntersection ==
    pc = "rf_monthly" =>
        /\ DOMAIN returns_df = ReturnDates(stock_data) \cap ReturnDates(market_data)
        /\ \A d \in DOMAIN returns_df :
              /\ returns_df[d].Stock_Return = stock_data["Return"][d]
              /\ returns_df[d].Market_Return = market_data["Return"][d]
        /\ Cardinality(DOMAIN returns_df)
              <= Min(Cardinality(ReturnDates(stock_data)),
                     Cardinality(ReturnDates(market_data)))

\* returns_df has rows although a stock return has no market return on its
\* date and a market return has no stock return on its date
C5_Witness ==
    /\ pc = "rf_monthly"
    /\ DOMAIN returns_df # {}
    /\ ReturnDates(stock_data) \ ReturnDates(market_data) # {}
    /\ ReturnDates(market_data) \ ReturnDates(stock_data) # {}
    /\ DOMAIN stock_data["Adj Close"] \ DOMAIN market_data["Adj Close"] # {}

---------------------------------------------------------------------------
(* C6 *)

\* the N - 1 returns formula on one frame whose Return column has been set
ReturnsAsClaimed(df) ==
    LET p == df["Adj Close"]
        r == df["Return"]
    IN  Cardinality(DOMAIN p) >= 2 =>
            /\ DOMAIN r = DOMAIN p
            /\ Cardinality(ReturnDates(df)) = Cardinality(DOMAIN p) - 1
            /\ \A t \in DOMAIN p :
                  LET before == {d \in DOMAIN p : d < t}
                  IN  IF before = {} THEN IsNaN(r[t])
                      ELSE LET prev == CHOOSE d \in before : \A e \in before : e <= d
                           IN  r[t] = RMul(RDiv(Rat(p[t] - p[prev]), Rat(p[prev])),
                                           Rat(100))

\* C6: when lines 55 and 56 have set the Return columns, a series of N >= 2
\* prices has N - 1 returns; the first date has none and every later date t
\* has (price[t] - price[t-1]) / price[t-1] * 100 over the preceding price
\* point of the same series.
C6_ReturnFormula ==
    /\ pc = "market_return" => ReturnsAsClaimed(stock_data)
    /\ pc = "returns_df" => ReturnsAsClaimed(stock_data) /\ ReturnsAsClaimed(market_data)

\* returns computed over a series of three prices with a date missing
\* between two of them, the price changing at each step
C6_Witness ==
    /\ pc = "market_return"
    /\ DOMAIN stock_data["Adj Close"] = {1, 3, 4}
    /\ stock_data["Return"][3] = Rat(100)
    /\ stock_data["Return"][4] = Rat(-50)

---------------------------------------------------------------------------
(* C7, C8 *)

\* C7: the Beta label is "Aggressive" exactly when the fitted slope exceeds
\* 1, "Defensive" exactly when it is below 1 and "Neutral" exactly when it
\* equals 1; the sentence on the page carries that label.
C7_BetaLabel ==
    Reached("interpret") =>
        LET b == model.params["Market_Return"]
        IN  /\ beta = b
            /\ beta_interpretation \in {"Aggressive", "Defensive", "Neutral"}
            /\ beta_interpretation = "Aggressive" <=> RGt(b, Rat(1))
            /\ beta_interpretation = "Defensive" <=> RLt(b, Rat(1))
            /\ beta_interpretation = "Neutral" <=> b = Rat(1)
            /\ \E i \in 1 .. Len(page) :
                  page[i].kind = "write" /\ page[i].text = beta_interpretation

\* a fitted slope of exactly 1 labelled Neutral
C7_Witness ==
    /\ Reached("interpret")
    /\ beta = Rat(1)
    /\ beta_interpretation = "Neutral"

\* C8: the Alpha label is "Outperforming" exactly when the fitted intercept
\* exceeds 0, "Underperforming" exactly when it is below 0 and "Neutral"
\* exactly when it equals 0; the sentence on the page carries that label.
C8_AlphaLabel ==
    Reached("interpret") =>
        LET a == model.params["const"]
        IN  /\ alpha = a
            /\ alpha_interpretation \in {"Outperforming", "Underperforming", "Neutral"}
            /\ alpha_interpretation = "Outperforming" <=> RGt(a, Rat(0))
            /\ alpha_interpretation = "Underperforming" <=> RLt(a, Rat(0))
            /\ alpha_interpretation = "Neutral" <=> a = Rat(0)
            /\ \E i \in 1 .. Len(page) :
                  page[i].kind = "write" /\ page[i].text = alpha_interpretation

\* a fitted intercept of exactly 0 labelled Neutral
C8_Witness ==
    /\ Reached("interpret")
    /\ alpha = Rat(0)
    /\ alpha_interpretation = "Neutral"

---------------------------------------------------------------------------
(* C9 *)

\* lines 65-71 on the rows of df at another annual rate: whether the fit
\* gives a slope and an intercept, and the fit
FitAt(df, rate) ==
    LET p  == PeriodicRate(rate)
        ys == ExcessY(df, p)
        XX == add_constant(ExcessX(df, p))
        ok == ~OLSRaises(ys, XX) /\ "const" \in DOMAIN XX
    IN  [ok |-> ok, p |-> p, fit |-> IF ok THEN OLSFit(ys, XX) ELSE NoFit]

\* C9: when the fit of line 71 has returned, the periodic rate is a function
\* of the annual rate alone, the excess series are the two return columns
\* less periodic_rate x 100 in every row, and for the same rows at any other
\* annual rate whose fit also gives a slope and an intercept, Beta is the
\* same and Alpha differs by -(change of the periodic rate) x 100 x (1 - Beta).
C9_RateShift ==
    (pc = "results_header" /\ "const" \in DOMAIN model.params) =>
        /\ risk_free_rate_monthly = PeriodicRate(risk_free_rate)
        /\ \A d \in DOMAIN returns_df :
              /\ X["Market_Return"][d]
                    = RSub(returns_df[d].Market_Return,
                           RMul(risk_free_rate_monthly, Rat(100)))
              /\ y[d] = RSub(returns_df[d].Stock_Return,
                             RMul(risk_free_rate_monthly, Rat(100)))
        /\ \A r2 \in RiskFreeRates :
              LET o == FitAt(returns_df, r2)
                  b == model.params["Market_Return"]
              IN  o.ok =>
                    /\ o.fit.params["Market_Return"] = b
                    /\ RSub(o.fit.params["const"], model.params["const"])
                          = RNeg(RMul(RMul(RSub(o.p, risk_free_rate_monthly), Rat(100)),
                                      RSub(Rat(1), b)))

\* a fit on three rows with a slope other than 0 and 1, and another annual
\* rate with a different periodic rate whose fit succeeds too
C9_Witness ==
    /\ pc = "results_header"
    /\ "const" \in DOMAIN model.params
    /\ Cardinality(DOMAIN returns_df) = 3
    /\ model.params["Market_Return"] \notin {Rat(0), Rat(1)}
    /\ \E r2 \in RiskFreeRates :
          /\ PeriodicRate(r2) # risk_free_rate_monthly
          /\ FitAt(returns_df, r2).ok

---------------------------------------------------------------------------
(* C10 *)

ErrorTail(e) == <<Element("error", e, NaN), Element("write", Hint, NaN)>>

\* the page a pass with these inputs ends with, from the provider's data alone
Outcome(symbol, index, start, end, rate) ==
    LET ticker == market_indices[index]
    IN  IF ~provider[symbol].ok \/ ~provider[ticker].ok
        THEN Header \o ErrorTail("DownloadError")
        ELSE
        LET sr == SeriesMul(pct_change(Download(symbol, start, end)["Adj Close"]), Rat(100))
            mr == SeriesMul(pct_change(Download(ticker, start, end)["Adj Close"]), Rat(100))
            df == dropna(DataFrame(sr, mr))
            p  == PeriodicRate(rate)
            ys == ExcessY(df, p)
            XX == add_constant(ExcessX(df, p))
        IN  IF OLSRaises(ys, XX) THEN Header \o ErrorTail("ValueError")
            ELSE
            LET m == OLSFit(ys, XX)
                top == Append(Header, Element("subheader", "Statistical Results", NaN))
            IN  IF "const" \notin DOMAIN m.params THEN top \o ErrorTail("KeyError")
                ELSE
                LET b == m.params["Market_Return"]
                    a == m.params["const"]
                    shown ==
                        top \o
                        <<Element("metric", "Beta", Round4(b)),
                          Element("metric", "Jensen's Alpha", Round4(a)),
                          Element("metric", "R-squared", Round4(m.rsquared)),
                          Element("subheader", "Interpretation", NaN),
                          Element("write", BetaLabel(b), Round4(b)),
                          Element("write", AlphaLabel(a), Round4(a)),
                          Element("subheader", "Visualizations", NaN)>>
                IN  IF TrendlineRaises(df) THEN shown \o ErrorTail("IndexError")
                    ELSE shown \o <<Element("chart", "scatter", NaN),
                                    Element("chart", "bar", NaN)>>

\* C10: no cache entry ever holds the Return column a pass added to the
\* frame it fetched, and every pass ends with the page that its inputs and
\* the provider's data for its two keys determine, whatever passes ran
\* before and whatever the cache held when it began.
C10_OutcomeFromInputs ==
    /\ \A k \in DOMAIN cache : DOMAIN cache[k] = {"Adj Close"}
    /\ pc = "done" =>
          page = Outcome(stock_symbol, selected_index, start_date, end_date,
                         risk_free_rate)

\* a third pass whose stock symbol is the selected index's ticker, so both
\* fetches hit one cache entry, ended with results
C10_Witness ==
    /\ pc = "done"
    /\ reruns = 2
    /\ stock_symbol = market_indices[selected_index]
    /\ DOMAIN cache = {CacheKey(stock_symbol, start_date, end_date)}
    /\ "Return" \in DOMAIN stock_data
    /\ ResultShown

=============================================================================
